---------------------------- MODULE Spec2Model ----------------------------
(***************************************************************************)
(* Model of src/main.py: the batch pipeline that turns a directory of      *)
(* XML incident reports into one summary row per incident.                 *)
(*                                                                         *)
(* Text is a sequence of characters, each character a one-character        *)
(* string; the two characters TLA+ cannot spell (U+FFFD and a control      *)
(* character) have a name.  A timestamp is a record of whole seconds since *)
(* 2024-01-01 00:00:00 and the milliseconds within the second.             *)
(***************************************************************************)
EXTENDS Integers, Sequences, FiniteSets, TLC

VARIABLES directory, fi, xml_text, all_rows, df, invalid, groups,
          aggregated, output, pc,
          raw_bytes, g, timeline, summary

vars == <<directory, fi, xml_text, all_rows, df, invalid, groups,
          aggregated, output, pc, raw_bytes, g, timeline, summary>>

-----------------------------------------------------------------------------
(* Bounds of the model *)

\* most <message> elements over the .xml files of one directory
MaxRows == 3
\* most rows of a partition handed directly to build_timeline / aggregate_group
MaxGroup == 3
\* largest whole second of a timestamp in such a partition
MaxSec == 1

-----------------------------------------------------------------------------
(* Characters and strings *)

REPLACEMENT == "U+FFFD"
CTRL == "U+0001"
LF == "\n"
TAB == "\t"

\* the characters of the model in code point order
CodepointOrder ==
    <<CTRL, TAB, LF, " ", ",", ".", "/", "0", "1", "2", "3", "4", "5", "6", "7",
      "8", "9", "?", "A", "B", "C", "D", "E", "F", "G", "H", "I", "J", "K", "L",
      "M", "N", "O", "P", "Q", "R", "S", "T", "U", "V", "W", "X", "Y", "Z", "[",
      "]", "_", "a", "b", "c", "d", "e", "f", "g", "h", "i", "j", "k", "l", "m",
      "n", "o", "p", "q", "r", "s", "t", "u", "v", "w", "x", "y", "z",
      REPLACEMENT>>

Ord(c) == CHOOSE i \in DOMAIN CodepointOrder : CodepointOrder[i] = c

UpperCase == <<"A", "B", "C", "D", "E", "F", "G", "H", "I", "J", "K", "L", "M",
               "N", "O", "P", "Q", "R", "S", "T", "U", "V", "W", "X", "Y", "Z">>
LowerCase == <<"a", "b", "c", "d", "e", "f", "g", "h", "i", "j", "k", "l", "m",
               "n", "o", "p", "q", "r", "s", "t", "u", "v", "w", "x", "y", "z">>

\* str.lower() on one character
LowerChar(c) ==
    IF \E i \in DOMAIN UpperCase : UpperCase[i] = c
    THEN LowerCase[CHOOSE i \in DOMAIN UpperCase : UpperCase[i] = c]
    ELSE c

\* str.lower()
Lower(s) == [i \in DOMAIN s |-> LowerChar(s[i])]

\* what \s and str.strip() treat as whitespace
IsSpace(c) == c \in {" ", LF, TAB}

\* str.isprintable() on one character
IsPrintable(c) == c \notin {CTRL, LF, TAB}

\* str.replace(old, new) for a one-character old; new is a string
RECURSIVE Replace(_, _, _)
Replace(s, old, new) ==
    IF s = <<>> THEN <<>>
    ELSE (IF Head(s) = old THEN new ELSE <<Head(s)>>) \o Replace(Tail(s), old, new)

RECURSIVE LStrip(_)
LStrip(s) == IF s # <<>> /\ IsSpace(Head(s)) THEN LStrip(Tail(s)) ELSE s

RECURSIVE RStrip(_)
RStrip(s) ==
    IF s # <<>> /\ IsSpace(s[Len(s)]) THEN RStrip(SubSeq(s, 1, Len(s) - 1)) ELSE s

\* str.strip()
Strip(s) == RStrip(LStrip(s))

\* re.sub(r'\s+', ' ', s)
RECURSIVE CollapseSpaces(_)
CollapseSpaces(s) ==
    IF s = <<>> THEN <<>>
    ELSE IF IsSpace(Head(s))
         THEN <<" ">> \o CollapseSpaces(LStrip(s))
         ELSE <<Head(s)>> \o CollapseSpaces(Tail(s))

\* a < b for strings, as Python compares them
RECURSIVE StrLess(_, _)
StrLess(a, b) ==
    IF b = <<>> THEN FALSE
    ELSE IF a = <<>> THEN TRUE
    ELSE IF Head(a) = Head(b) THEN StrLess(Tail(a), Tail(b))
    ELSE Ord(Head(a)) < Ord(Head(b))

\* s.endswith(suffix)
EndsWith(s, suffix) ==
    /\ Len(s) >= Len(suffix)
    /\ SubSeq(s, Len(s) - Len(suffix) + 1, Len(s)) = suffix

clean_text(text) ==
    IF text = <<>> THEN <<>>
    ELSE LET replaced == Replace(Replace(Replace(text, REPLACEMENT, <<"?">>),
                                         REPLACEMENT, <<"?">>),
                                 REPLACEMENT, <<>>)
             printable == SelectSeq(replaced,
                                    LAMBDA c : IsPrintable(c) \/ c \in {LF, TAB})
         IN  CollapseSpaces(Strip(printable))

-----------------------------------------------------------------------------
(* String literals of the program *)

XmlSuffix == <<".", "x", "m", "l">>
NA == <<"N", "/", "A">>
NoDetailProvided ==
    <<"N", "o", " ", "d", "e", "t", "a", "i", "l", " ",
      "p", "r", "o", "v", "i", "d", "e", "d">>
TruncatedMarker ==
    <<".", ".", ".", " ", "[", "t", "r", "u", "n", "c", "a", "t", "e", "d", "]">>
Unknown == <<"U", "n", "k", "n", "o", "w", "n">>
MAX_CHARS == 1200

-----------------------------------------------------------------------------
(* Decoder: the first part of process_xml *)

encodings == <<"big5", "big5hkscs", "gb18030", "gbk", "utf-8", "utf-8-sig">>

\* xml_text = None
NoText == [enc |-> "None", errors |-> "None"]

\* raw_bytes.decode(enc): the bytes are known by the set of encodings that
\* decode them without a UnicodeDecodeError; the text by how it was decoded
DecodeRaises(bytes, enc) == enc \notin bytes

\* the for loop over encodings, from candidate i on, with its break
RECURSIVE DecodeLoopContinuing(_, _, _)
DecodeLoopContinuing(bytes, i, text) ==
    IF i > Len(encodings) THEN text
    ELSE IF DecodeRaises(bytes, encodings[i])
         THEN DecodeLoopContinuing(bytes, i + 1, text)
         ELSE DecodeLoopContinuing(bytes, i + 1,
                                   [enc |-> encodings[i], errors |-> "strict"])

RECURSIVE DecodeLoop(_, _, _)
DecodeLoop(bytes, i, text) ==
    IF i > Len(encodings) THEN text
    ELSE IF DecodeRaises(bytes, encodings[i])
         THEN DecodeLoop(bytes, i + 1, text)
         ELSE [enc |-> encodings[i], errors |-> "strict"]

Decode(bytes) ==
    LET tried == DecodeLoop(bytes, 1, NoText)
    IN  IF tried = NoText THEN [enc |-> "big5", errors |-> "replace"] ELSE tried

-----------------------------------------------------------------------------
(* Record extraction: the rest of process_xml *)

Tags == {"INCIDENT_NUMBER", "INCIDENT_HEADING_EN", "INCIDENT_DETAIL_EN",
         "LOCATION_EN", "DIRECTION_EN", "ANNOUNCEMENT_DATE",
         "INCIDENT_STATUS_EN", "NEAR_LANDMARK_EN", "CONTENT_EN"}

\* message.findtext(tag, ""): a message maps each tag to <<>> (no such child)
\* or to <<text>>
findtext(message, tag) == IF message[tag] = <<>> THEN <<>> ELSE message[tag][1]

safe_findtext(message, tag) ==
    LET t == findtext(message, tag)
    IN  IF t # <<>> THEN clean_text(t) ELSE <<>>

ExtractRow(file, message) ==
    [file              |-> file.name,
     incident_number   |-> safe_findtext(message, "INCIDENT_NUMBER"),
     heading_en        |-> safe_findtext(message, "INCIDENT_HEADING_EN"),
     detail_en         |-> safe_findtext(message, "INCIDENT_DETAIL_EN"),
     location_en       |-> safe_findtext(message, "LOCATION_EN"),
     direction_en      |-> safe_findtext(message, "DIRECTION_EN"),
     announcement_date |-> safe_findtext(message, "ANNOUNCEMENT_DATE"),
     status_en         |-> safe_findtext(message, "INCIDENT_STATUS_EN"),
     near_landmark_en  |-> safe_findtext(message, "NEAR_LANDMARK_EN"),
     content_en        |-> Replace(safe_findtext(message, "CONTENT_EN"), LF, <<" ">>)]

\* the for loop over root.findall("message") from message i on; file.raisesAt
\* is the message during whose extraction an exception is raised (0: none)
RECURSIVE ExtractLoop(_, _, _)
ExtractLoop(file, i, rows) ==
    LET messages == file.root[1]
    IN  IF i > Len(messages) THEN [raised |-> FALSE, rows |-> rows]
        ELSE IF file.raisesAt = i THEN [raised |-> TRUE, rows |-> rows]
        ELSE ExtractLoop(file, i + 1, Append(rows, ExtractRow(file, messages[i])))

\* the try block: a file whose text yields no tree (file.root = <<>>) raises
\* before the loop
TryBlock(file) ==
    IF file.root = <<>> THEN [raised |-> TRUE, rows |-> <<>>]
    ELSE ExtractLoop(file, 1, <<>>)

process_xml_keeping_rows(file) == TryBlock(file).rows

process_xml(file) ==
    LET tried == TryBlock(file)
    IN  IF tried.raised THEN <<>> ELSE tried.rows
-----------------------------------------------------------------------------
(* Date parsing, cleaning and sorting of the pooled rows *)

Columns == {"file", "incident_number", "heading_en", "detail_en", "location_en",
            "direction_en", "announcement_date", "status_en", "near_landmark_en",
            "content_en"}

NaT == [valid |-> FALSE, sec |-> 0, ms |-> 0]
Timestamp(sec, ms) == [valid |-> TRUE, sec |-> sec, ms |-> ms]

DateJan1 == <<"2", "0", "2", "4", "-", "0", "1", "-", "0", "1">>
DateJan2 == <<"2", "0", "2", "4", "-", "0", "1", "-", "0", "2">>
DateJan2MonthFirst == <<"1", "/", "2", "/", "2", "0", "2", "4">>
NotADate == <<"n", "o", "t", "-", "a", "-", "d", "a", "t", "e">>

\* pd.to_datetime(s, format='mixed', errors='coerce', dayfirst=False) on one
\* string, for the date strings of the model; any other string is NaT
to_datetime(s) ==
    IF s = DateJan1 THEN Timestamp(0, 0)
    ELSE IF s = DateJan2 THEN Timestamp(86400, 0)
    ELSE IF s = DateJan2MonthFirst THEN Timestamp(86400, 0)
    ELSE NaT

ParseDates(rows) ==
    [i \in DOMAIN rows |->
        [rows[i] EXCEPT !.announcement_date = to_datetime(rows[i].announcement_date)]]

\* df['announcement_date'].isna().sum()
CountNaT(rows) == Cardinality({i \in DOMAIN rows : rows[i].announcement_date = NaT})

dropna_keeping_all(rows) == rows

\* df.dropna(subset=['announcement_date'])
dropna(rows) == SelectSeq(rows, LAMBDA r : r.announcement_date # NaT)

TsLess(a, b) == a.sec < b.sec \/ (a.sec = b.sec /\ a.ms < b.ms)

\* the order of sort_values(['incident_number', 'announcement_date'])
RowLess(a, b) ==
    \/ StrLess(a.incident_number, b.incident_number)
    \/ /\ a.incident_number = b.incident_number
       /\ TsLess(a.announcement_date, b.announcement_date)

\* r placed before the first row that is greater: after every equal row
RECURSIVE InsertStable(_, _)
InsertStable(sorted, r) ==
    IF sorted = <<>> THEN <<r>>
    ELSE IF RowLess(r, Head(sorted)) THEN <<r>> \o sorted
    ELSE <<Head(sorted)>> \o InsertStable(Tail(sorted), r)

RECURSIVE InsertBeforeEqual(_, _)
InsertBeforeEqual(sorted, r) ==
    IF sorted = <<>> THEN <<r>>
    ELSE IF ~RowLess(Head(sorted), r) THEN <<r>> \o sorted
    ELSE <<Head(sorted)>> \o InsertBeforeEqual(Tail(sorted), r)

RECURSIVE SortFrom(_, _, _)
SortFrom(rows, i, sorted) ==
    IF i > Len(rows) THEN sorted
    ELSE SortFrom(rows, i + 1, InsertStable(sorted, rows[i]))

RECURSIVE SortFromUnstable(_, _, _)
SortFromUnstable(rows, i, sorted) ==
    IF i > Len(rows) THEN sorted
    ELSE SortFromUnstable(rows, i + 1, InsertBeforeEqual(sorted, rows[i]))

sort_values_unstable(rows) == SortFromUnstable(rows, 1, <<>>)

\* df.sort_values([...]).reset_index(drop=True): a stable sort on the two keys
sort_values(rows) == SortFrom(rows, 1, <<>>)

-----------------------------------------------------------------------------
(* Grouping *)

RECURSIVE Descending(_)
Descending(S) ==
    IF S = {} THEN <<>>
    ELSE LET m == CHOOSE x \in S : \A y \in S \ {x} : StrLess(y, x)
         IN  <<m>> \o Descending(S \ {m})

\* the distinct values of a set of strings in ascending order
RECURSIVE Ascending(_)
Ascending(S) ==
    IF S = {} THEN <<>>
    ELSE LET m == CHOOSE x \in S : \A y \in S \ {x} : StrLess(x, y)
         IN  <<m>> \o Ascending(S \ {m})

GroupOf(rows, key) ==
    [columns |-> Columns,
     rows |-> SelectSeq(rows, LAMBDA r : r.incident_number = key)]

\* df.groupby('incident_number'): one frame per distinct key, keys ascending,
\* each frame holding the key's rows in the order they have in df
groupby(rows) ==
    LET keys == Ascending({rows[i].incident_number : i \in DOMAIN rows})
    IN  [i \in DOMAIN keys |-> GroupOf(rows, keys[i])]
-----------------------------------------------------------------------------
(* build_timeline *)

\* ts.strftime('%Y-%m-%d %H:%M:%S'): the text of a timestamp's whole second,
\* here the second itself; the milliseconds are not printed
strftime(ts) == ts.sec

\* a or b, for strings
OrElse(a, b) == IF a # <<>> THEN a ELSE b

\* s[:n]
Prefix(s, n) == SubSeq(s, 1, IF Len(s) < n THEN Len(s) ELSE n)

drop_duplicates_keeping_all(rows) == rows

\* group.drop_duplicates(subset=['announcement_date'], keep='first')
drop_duplicates(rows) ==
    LET kept == {i \in DOMAIN rows :
                    \A j \in 1..(i - 1) :
                        rows[j].announcement_date # rows[i].announcement_date}
        \* the kept positions in ascending order
        pos == [n \in 1..Cardinality(kept) |->
                   CHOOSE i \in kept : Cardinality({j \in kept : j < i}) = n - 1]
    IN  [n \in DOMAIN pos |-> rows[pos[n]]]

Status(row) == clean_text(OrElse(row.status_en, NA))

Detail(row) ==
    LET detail_raw == clean_text(OrElse(row.content_en,
                                        OrElse(row.detail_en, NoDetailProvided)))
    IN  Prefix(detail_raw, MAX_CHARS)
            \o (IF Len(detail_raw) > MAX_CHARS THEN TruncatedMarker ELSE <<>>)

\* detail.lower().replace(" ", "").replace(".", "").replace(",", "")
Norm(detail) ==
    Replace(Replace(Replace(Lower(detail), " ", <<>>), ".", <<>>), ",", <<>>)

DedupKeyTextOnly(row) == <<Norm(Detail(row))>>

\* key = (ts, norm)
DedupKey(row) == <<strftime(row.announcement_date), Norm(Detail(row))>>

Line(row) ==
    [ts |-> strftime(row.announcement_date),
     status |-> Status(row),
     detail |-> Detail(row)]

\* the loop with a skip of every key already emitted, not only the last
RECURSIVE TimelineLoopGlobalDedup(_, _, _, _)
TimelineLoopGlobalDedup(rows, i, prev_key, lines) ==
    IF i > Len(rows) THEN lines
    ELSE IF \E j \in 1..(i - 1) : DedupKey(rows[j]) = DedupKey(rows[i])
         THEN TimelineLoopGlobalDedup(rows, i + 1, prev_key, lines)
         ELSE TimelineLoopGlobalDedup(rows, i + 1, DedupKey(rows[i]),
                                      Append(lines, Line(rows[i])))

\* the for loop over group.iterrows() from row i on; prev_key = None is <<>>
RECURSIVE TimelineLoop(_, _, _, _)
TimelineLoop(rows, i, prev_key, lines) ==
    IF i > Len(rows) THEN lines
    ELSE IF DedupKey(rows[i]) = prev_key
         THEN TimelineLoop(rows, i + 1, prev_key, lines)
         ELSE TimelineLoop(rows, i + 1, DedupKey(rows[i]),
                           Append(lines, Line(rows[i])))

NoUpdatesAvailable == "No updates available."
NoMeaningfulUpdates == "No meaningful updates after deduplication."
EmptyGroupNoData == "Empty group - no data"

\* a timeline is one of the program's literals, or a header and the update
\* lines that follow it (joined by blank lines in the program's string)
Literal(text) == [literal |-> text, header |-> <<>>, lines |-> <<>>]

build_timeline(group) ==
    IF group.rows = <<>> THEN Literal(NoUpdatesAvailable)
    ELSE LET rows == drop_duplicates(group.rows)
             lines == TimelineLoop(rows, 1, <<>>, <<>>)
         IN  IF lines = <<>> THEN Literal(NoMeaningfulUpdates)
             ELSE [literal |-> "",
                   header |-> <<IF "incident_number" \in group.columns
                                THEN rows[1].incident_number ELSE Unknown,
                                OrElse(rows[1].location_en, NA),
                                OrElse(rows[1].heading_en, NA)>>,
                   lines |-> lines]

-----------------------------------------------------------------------------
(* aggregate_group *)

MinTs(rows) ==
    rows[CHOOSE i \in DOMAIN rows :
            \A j \in DOMAIN rows :
                ~TsLess(rows[j].announcement_date, rows[i].announcement_date)
        ].announcement_date

MaxTs(rows) ==
    rows[CHOOSE i \in DOMAIN rows :
            \A j \in DOMAIN rows :
                ~TsLess(rows[i].announcement_date, rows[j].announcement_date)
        ].announcement_date

\* round((last - first).total_seconds() / 60, 1), in tenths of a minute;
\* round() takes a tie to the even tenth
DurationTenths(first, last) ==
    LET millis == (last.sec - first.sec) * 1000 + (last.ms - first.ms)
        q == millis \div 6000
        r == millis % 6000
    IN  IF 2 * r > 6000 \/ (2 * r = 6000 /\ q % 2 = 1) THEN q + 1 ELSE q

NoRow ==
    [incident_number |-> <<>>, first_file |-> <<>>, first_announcement |-> NaT,
     last_announcement |-> NaT, duration_minutes |-> 0,
     llm_timeline |-> Literal(""), final_status |-> <<>>, initial_heading |-> <<>>,
     main_location |-> <<>>, main_direction |-> <<>>, near_landmark |-> <<>>]

\* what a call of aggregate_group ends with: the exception it raises ("" for
\* none) and the row it returns; sentinel marks the two-field row of the
\* empty branch, whose other fields are not set
Raise(exception) == [raised |-> exception, sentinel |-> FALSE, row |-> NoRow]
Return(row) == [raised |-> "", sentinel |-> FALSE, row |-> row]
ReturnSentinel(incident_number) ==
    [raised |-> "", sentinel |-> TRUE,
     row |-> [NoRow EXCEPT !.incident_number = incident_number,
                           !.llm_timeline = Literal(EmptyGroupNoData)]]

aggregate_group(frame) ==
    IF frame.rows = <<>>
    THEN \* g['incident_number'].iloc[0] of an empty frame raises IndexError
         IF "incident_number" \in frame.columns THEN Raise("IndexError")
         ELSE ReturnSentinel(Unknown)
    ELSE \* g['incident_number'] of a frame without the column raises KeyError
         IF "incident_number" \notin frame.columns THEN Raise("KeyError")
         ELSE LET rows == frame.rows
                  first == MinTs(rows)
                  last == MaxTs(rows)
              IN  Return(
                    [incident_number    |-> rows[1].incident_number,
                     first_file         |-> rows[1].file,
                     first_announcement |-> first,
                     last_announcement  |-> last,
                     duration_minutes   |-> IF Len(rows) > 1
                                            THEN DurationTenths(first, last) ELSE 0,
                     llm_timeline       |-> build_timeline(frame),
                     final_status       |-> clean_text(rows[Len(rows)].status_en),
                     initial_heading    |-> clean_text(rows[1].heading_en),
                     main_location      |-> clean_text(rows[1].location_en),
                     main_direction     |-> clean_text(rows[1].direction_en),
                     near_landmark      |-> clean_text(rows[1].near_landmark_en)])
-----------------------------------------------------------------------------
(* Inputs *)

NameA == <<"a", ".", "x", "m", "l">>
NameB == <<"b", ".", "X", "M", "L">>
NameC == <<"c", ".", "t", "x", "t">>

\* the bytes of each file, as the encodings that decode them
BytesOf(name) ==
    IF name = NameA THEN {"gb18030", "utf-8", "utf-8-sig"}
    ELSE IF name = NameB THEN {}
    ELSE {"big5", "big5hkscs", "gb18030", "gbk"}

\* a <message> element: <<>> for a child that is absent, <<text>> for its text
Message(id, date, content, detail, status) ==
    [t \in Tags |->
        CASE t = "INCIDENT_NUMBER" -> id
          [] t = "ANNOUNCEMENT_DATE" -> date
          [] t = "CONTENT_EN" -> content
          [] t = "INCIDENT_DETAIL_EN" -> detail
          [] t = "INCIDENT_STATUS_EN" -> status
          [] t = "INCIDENT_HEADING_EN" -> <<<<"J", "a", "m">>>>
          [] t = "LOCATION_EN" -> <<>>
          [] OTHER -> <<<<" ">>>>]

MessagePool ==
    {Message(<<<<"a">>>>, <<DateJan2>>, <<<<"x", LF, "y">>>>, <<>>, <<<<"O", "n">>>>),
     Message(<<<<"a">>>>, <<DateJan2MonthFirst>>, <<<<REPLACEMENT>>>>, <<>>, <<>>),
     Message(<<<<" ", "a", CTRL>>>>, <<<<" ">> \o DateJan1>>, <<>>, <<<<"x">>>>,
             <<<<"O", "f", "f">>>>),
     Message(<<<<" ">>>>, <<DateJan1>>, <<<<"x">>>>, <<>>, <<>>),
     Message(<<>>, <<NotADate>>, <<<<"x">>>>, <<>>, <<>>)}

File(name, root, raisesAt) ==
    [name |-> name, raw_bytes |-> BytesOf(name), root |-> root, raisesAt |-> raisesAt]

\* what a file that holds these messages can be: read whole, or raising during
\* its last message; with no message, a tree without messages or no tree
FilesHolding(name, messages) ==
    {File(name, <<messages>>, 0)}
        \cup (IF messages = <<>> THEN {File(name, <<>>, 0)}
              ELSE {File(name, <<messages>>, Len(messages))})

MessageSeqs == UNION {[1..n -> MessagePool] : n \in 0..MaxRows}

\* the two .xml files of a directory: at most MaxRows messages over both
XmlPairs ==
    UNION {FilesHolding(NameA, SubSeq(s, 1, k))
               \X FilesHolding(NameB, SubSeq(s, k + 1, Len(s))) :
           <<s, k>> \in {<<s, k>> \in MessageSeqs \X (0..MaxRows) : k <= Len(s)}}

OtherFile == File(NameC, <<>>, 0)

\* os.listdir(directory), in any order: a.xml or not, and at most one other
\* file, b.XML or c.txt
Listings ==
    {l \in UNION {[1..n -> {NameA, NameB, NameC}] : n \in 0..2} :
        /\ \A i, j \in DOMAIN l : i # j => l[i] # l[j]
        /\ ~({NameB, NameC} \subseteq {l[i] : i \in DOMAIN l})}

Directories ==
    {[i \in DOMAIN l |-> IF l[i] = NameA THEN p[1]
                         ELSE IF l[i] = NameB THEN p[2] ELSE OtherFile] :
     <<l, p>> \in Listings \X XmlPairs}

-----------------------------------------------------------------------------
(* process_all_xml_to_csv *)

NoFrame == [columns |-> {}, rows |-> <<>>]
NoOutput == [written |-> FALSE, rows |-> <<>>]

Init ==
    /\ directory \in Directories
    /\ fi = 1
    /\ xml_text = NoText
    /\ all_rows = <<>>
    /\ df = <<>>
    /\ invalid = 0
    /\ groups = <<>>
    /\ aggregated = <<>>
    /\ output = NoOutput
    /\ pc = "listdir"
    /\ raw_bytes = {}
    /\ g = NoFrame
    /\ timeline = Literal("")
    /\ summary = Return(NoRow)

\* filename.lower().endswith(".xml")
IsXml(file) == EndsWith(Lower(file.name), XmlSuffix)

\* one iteration of the loop over os.listdir(directory)
ProcessFile ==
    /\ pc = "listdir"
    /\ fi <= Len(directory)
    /\ LET file == directory[fi]
       IN  IF IsXml(file)
           THEN /\ xml_text' = Decode(file.raw_bytes)
                /\ all_rows' = all_rows \o process_xml(file)
           ELSE UNCHANGED <<xml_text, all_rows>>
    /\ fi' = fi + 1
    /\ UNCHANGED <<directory, df, invalid, groups, aggregated, output, pc,
                   raw_bytes, g, timeline, summary>>

\* if not all_rows: return
NoData ==
    /\ pc = "listdir"
    /\ fi > Len(directory)
    /\ all_rows = <<>>
    /\ pc' = "done"
    /\ UNCHANGED <<directory, fi, xml_text, all_rows, df, invalid, groups,
                   aggregated, output, raw_bytes, g, timeline, summary>>

\* df = pd.DataFrame(all_rows), the date parsing and the count of invalid dates
ParseAnnouncementDates ==
    /\ pc = "listdir"
    /\ fi > Len(directory)
    /\ all_rows # <<>>
    /\ df' = ParseDates(all_rows)
    /\ invalid' = CountNaT(df')
    /\ pc' = "dropna"
    /\ UNCHANGED <<directory, fi, xml_text, all_rows, groups, aggregated, output,
                   raw_bytes, g, timeline, summary>>

DropNa ==
    /\ pc = "dropna"
    /\ df' = dropna(df)
    /\ pc' = "sort_values"
    /\ UNCHANGED <<directory, fi, xml_text, all_rows, invalid, groups, aggregated,
                   output, raw_bytes, g, timeline, summary>>

SortValues ==
    /\ pc = "sort_values"
    /\ df' = sort_values(df)
    /\ pc' = "groupby"
    /\ UNCHANGED <<directory, fi, xml_text, all_rows, invalid, groups, aggregated,
                   output, raw_bytes, g, timeline, summary>>

\* df.groupby('incident_number').apply(aggregate_group).reset_index(drop=True)
\* and the column selection, which raises KeyError on the frame pandas returns
\* when there is no group
GroupByApply ==
    /\ pc = "groupby"
    /\ groups' = groupby(df)
    /\ LET results == [i \in DOMAIN groups' |-> aggregate_group(groups'[i])]
       IN  IF groups' = <<>> \/ \E i \in DOMAIN results : results[i].raised # ""
           THEN pc' = "raised" /\ UNCHANGED aggregated
           ELSE /\ aggregated' = [i \in DOMAIN results |-> results[i].row]
                /\ pc' = "to_csv"
    /\ UNCHANGED <<directory, fi, xml_text, all_rows, df, invalid, output,
                   raw_bytes, g, timeline, summary>>

ToCsv ==
    /\ pc = "to_csv"
    /\ output' = [written |-> TRUE, rows |-> aggregated]
    /\ pc' = "done"
    /\ UNCHANGED <<directory, fi, xml_text, all_rows, df, invalid, groups,
                   aggregated, raw_bytes, g, timeline, summary>>

Next ==
    \/ ProcessFile
    \/ NoData
    \/ ParseAnnouncementDates
    \/ DropNa
    \/ SortValues
    \/ GroupByApply
    \/ ToCsv

Spec == Init /\ [][Next]_vars
-----------------------------------------------------------------------------
(* The decoder on its own: any bytes, decoded as process_xml decodes them *)

AllBytes == SUBSET {encodings[i] : i \in DOMAIN encodings}

InitDecode ==
    /\ raw_bytes \in AllBytes
    /\ xml_text = NoText
    /\ pc = "decode"
    /\ directory = <<>>
    /\ fi = 1
    /\ all_rows = <<>>
    /\ df = <<>>
    /\ invalid = 0
    /\ groups = <<>>
    /\ aggregated = <<>>
    /\ output = NoOutput
    /\ g = NoFrame
    /\ timeline = Literal("")
    /\ summary = Return(NoRow)

DecodeBytes ==
    /\ pc = "decode"
    /\ xml_text' = Decode(raw_bytes)
    /\ pc' = "decoded"
    /\ UNCHANGED <<directory, fi, all_rows, df, invalid, groups, aggregated,
                   output, raw_bytes, g, timeline, summary>>

NextDecode == DecodeBytes

SpecDecode == InitDecode /\ [][NextDecode]_vars

-----------------------------------------------------------------------------
(* build_timeline and aggregate_group on their own: any time-sorted frame *)

\* the milliseconds of the timestamps drawn
Millis == {0, 250, 500}

Timestamps == {Timestamp(sec, ms) : sec \in 0..MaxSec, ms \in Millis}

\* the texts of a row after extraction: content, detail and status
RowTexts ==
    {[content_en |-> <<"A", ".">>, detail_en |-> <<"b">>, status_en |-> <<"O", "n">>],
     [content_en |-> <<>>, detail_en |-> <<"a", ",", " ">> , status_en |-> <<>>],
     [content_en |-> <<>>, detail_en |-> <<>>, status_en |-> <<"O", "f", "f">>]}

PartitionRow(ts, texts) ==
    [file              |-> NameA,
     incident_number   |-> <<"a">>,
     heading_en        |-> <<"J", "a", "m">>,
     detail_en         |-> texts.detail_en,
     location_en       |-> <<>>,
     direction_en      |-> <<>>,
     announcement_date |-> ts,
     status_en         |-> texts.status_en,
     near_landmark_en  |-> <<>>,
     content_en        |-> texts.content_en]

\* the non-decreasing sequences of n timestamps
SortedTimes(n) ==
    {tss \in [1..n -> Timestamps] :
        \A i \in 1..(n - 1) : ~TsLess(tss[i + 1], tss[i])}

\* a frame may lack the grouping column; such frames are kept short
ColumnSets(n) ==
    IF n <= 1 THEN {Columns, Columns \ {"incident_number"}} ELSE {Columns}

InitGroup ==
    /\ \E n \in 0..MaxGroup :
         \E tss \in SortedTimes(n), texts \in [1..n -> RowTexts],
            columns \in ColumnSets(n) :
             g = [columns |-> columns,
                  rows |-> [i \in 1..n |-> PartitionRow(tss[i], texts[i])]]
    /\ timeline = Literal("")
    /\ summary = Return(NoRow)
    /\ pc = "call"
    /\ directory = <<>>
    /\ fi = 1
    /\ xml_text = NoText
    /\ all_rows = <<>>
    /\ df = <<>>
    /\ invalid = 0
    /\ groups = <<>>
    /\ aggregated = <<>>
    /\ output = NoOutput
    /\ raw_bytes = {}

CallBuildTimeline ==
    /\ pc = "call"
    /\ timeline' = build_timeline(g)
    /\ pc' = "build_timeline"
    /\ UNCHANGED <<directory, fi, xml_text, all_rows, df, invalid, groups,
                   aggregated, output, raw_bytes, g, summary>>

CallAggregateGroup ==
    /\ pc = "call"
    /\ summary' = aggregate_group(g)
    /\ pc' = "aggregate_group"
    /\ UNCHANGED <<directory, fi, xml_text, all_rows, df, invalid, groups,
                   aggregated, output, raw_bytes, g, timeline>>

NextGroup ==
    \/ CallBuildTimeline
    \/ CallAggregateGroup

SpecGroup == InitGroup /\ [][NextGroup]_vars
-----------------------------------------------------------------------------
(* Claims about extraction and the batch loop (Spec) *)

\* the field is absent, empty or whitespace-only
BlankField(message, tag) == message[tag] = <<>> \/ Strip(message[tag][1]) = <<>>

MissingId(name) ==
    <<"M", "I", "S", "S", "I", "N", "G", "_", "I", "D", "_">> \o name

\* the files the loop has passed that were read without an exception
ReadWhole(k) ==
    /\ k < fi
    /\ IsXml(directory[k])
    /\ directory[k].root # <<>>
    /\ directory[k].raisesAt = 0

\* C1: every extracted record has a non-empty incident identifier, and a
\* message whose INCIDENT_NUMBER is absent, empty or whitespace-only gives a
\* record whose identifier is MISSING_ID_<source-file-name>.
C1_IdentifierNeverEmpty ==
    /\ \A i \in DOMAIN all_rows : all_rows[i].incident_number # <<>>
    /\ \A k \in DOMAIN directory :
         ReadWhole(k) =>
           \A m \in DOMAIN directory[k].root[1] :
             BlankField(directory[k].root[1][m], "INCIDENT_NUMBER") =>
               \E i \in DOMAIN all_rows :
                 /\ all_rows[i].file = directory[k].name
                 /\ all_rows[i].incident_number = MissingId(directory[k].name)

\* what the files before position k contribute when a failed file gives
\* nothing and every other .xml file gives one record per message
RECURSIVE Contribution(_)
Contribution(k) ==
    IF k = 0 THEN <<>>
    ELSE Contribution(k - 1) \o
         (IF ReadWhole(k)
          THEN [m \in DOMAIN directory[k].root[1] |->
                   ExtractRow(directory[k], directory[k].root[1][m])]
          ELSE <<>>)

\* C6: a failure in one file is contained at that file: the file gives zero
\* records, also when records were extracted before the failure, the loop
\* goes on, and every other .xml file contributes its records unchanged.
C6_FailureContained ==
    /\ all_rows = Contribution(fi - 1)
    /\ pc # "listdir" => fi = Len(directory) + 1

C6_Witness ==
    /\ pc # "listdir"
    /\ \E j, k \in DOMAIN directory :
         /\ j < k
         /\ IsXml(directory[j]) /\ directory[j].raisesAt >= 2
         /\ ReadWhole(k) /\ directory[k].root[1] # <<>>
    /\ all_rows # <<>>

-----------------------------------------------------------------------------
(* Claims about date parsing, sorting and grouping (Spec) *)

\* the pooled records whose date parses, with the date parsed, in pooling order
Survivors == SelectSeq(ParseDates(all_rows), LAMBDA r : r.announcement_date.valid)

Count(rows, r) == Cardinality({i \in DOMAIN rows : rows[i] = r})

RECURSIVE SumLen(_, _)
SumLen(frames, n) == IF n = 0 THEN 0 ELSE SumLen(frames, n - 1) + Len(frames[n].rows)

Parsed == pc # "listdir" /\ all_rows # <<>>
Dropped == Parsed /\ pc # "dropna"
Grouped == Dropped /\ pc \notin {"sort_values", "groupby"}

\* C5: a record whose date cannot be parsed is dropped before grouping and
\* counted: it is in no partition and behind no field of an output row, the
\* invalid count is the number of dropped records, and every record with a
\* parsable date is in exactly one partition.
C5_UnparsableDropped ==
    LET survivors == Survivors
    IN  /\ Parsed => invalid = Len(all_rows) - Len(survivors)
        /\ Dropped =>
             /\ Len(df) = Len(all_rows) - invalid
             /\ \A i \in DOMAIN df : df[i].announcement_date.valid
             /\ \A i \in DOMAIN df : Count(df, df[i]) = Count(survivors, df[i])
        /\ Grouped =>
             /\ SumLen(groups, Len(groups)) = Len(survivors)
             /\ \A n \in DOMAIN groups : \A i \in DOMAIN groups[n].rows :
                  LET r == groups[n].rows[i]
                  IN  /\ r.announcement_date.valid
                      /\ Count(groups[n].rows, r) = Count(survivors, r)
                      /\ \A o \in DOMAIN groups :
                            o # n => Count(groups[o].rows, r) = 0
        /\ \A n \in DOMAIN output.rows :
             \E i, j \in DOMAIN survivors :
                /\ survivors[i].incident_number = output.rows[n].incident_number
                /\ survivors[i].file = output.rows[n].first_file
                /\ survivors[i].announcement_date = output.rows[n].first_announcement
                /\ survivors[j].incident_number = output.rows[n].incident_number
                /\ survivors[j].announcement_date = output.rows[n].last_announcement

C5_Witness ==
    /\ output.written
    /\ invalid >= 1
    /\ Len(all_rows) > invalid + 1

\* C4: in every partition the records are in non-decreasing timestamp order,
\* and records of a partition with equal timestamps keep the relative order
\* they had in the pooled input.
C4_PartitionsTimeSorted ==
    Grouped =>
      LET survivors == Survivors
      IN  \A n \in DOMAIN groups :
            LET rows == groups[n].rows
            IN  /\ \A i \in 1..(Len(rows) - 1) :
                     ~TsLess(rows[i + 1].announcement_date, rows[i].announcement_date)
                /\ \A i \in DOMAIN rows :
                     LET Tie(r) == /\ r.incident_number = rows[i].incident_number
                                   /\ r.announcement_date = rows[i].announcement_date
                     IN  SelectSeq(rows, Tie) = SelectSeq(survivors, Tie)

C4_Witness ==
    /\ Grouped
    /\ df # Survivors
    /\ \E n \in DOMAIN groups :
         LET rows == groups[n].rows
         IN  /\ Len(rows) = 3
             /\ TsLess(rows[1].announcement_date, rows[2].announcement_date)
             /\ rows[2].announcement_date = rows[3].announcement_date
             /\ rows[2] # rows[3]

\* C8: the output has exactly one row per distinct incident identifier among
\* the records that survived date parsing, in ascending identifier order,
\* whatever the pooling order.
C8_OneRowPerIncidentAscending ==
    output.written =>
      /\ {output.rows[n].incident_number : n \in DOMAIN output.rows}
            = {Survivors[i].incident_number : i \in DOMAIN Survivors}
      /\ \A n \in 1..(Len(output.rows) - 1) :
            StrLess(output.rows[n].incident_number, output.rows[n + 1].incident_number)

C8_Witness ==
    /\ output.written
    /\ Len(output.rows) >= 2
    /\ Survivors[1].incident_number # output.rows[1].incident_number
-----------------------------------------------------------------------------
(* Claim about the decoder (SpecDecode) *)

\* C9: the decoder returns the text of the first encoding, in the fixed order
\* big5, big5hkscs, gb18030, gbk, utf-8, utf-8-sig, that decodes the bytes
\* without error; when none does it decodes with big5 and replacement
\* characters, so it always yields text.
C9_FirstCandidateOrFallback ==
    pc = "decoded" =>
      /\ xml_text # NoText
      /\ encodings = <<"big5", "big5hkscs", "gb18030", "gbk", "utf-8", "utf-8-sig">>
      /\ IF raw_bytes = {}
         THEN xml_text = [enc |-> "big5", errors |-> "replace"]
         ELSE \E i \in DOMAIN encodings :
                /\ xml_text = [enc |-> encodings[i], errors |-> "strict"]
                /\ encodings[i] \in raw_bytes
                /\ \A j \in 1..(i - 1) : encodings[j] \notin raw_bytes

C9_Witness ==
    /\ pc = "decoded"
    /\ raw_bytes = {"gbk", "utf-8"}
    /\ xml_text.enc = "gbk"

-----------------------------------------------------------------------------
(* Claims about build_timeline and aggregate_group (SpecGroup) *)

Built == pc = "build_timeline"

\* the comparison key of an emitted line
LineKey(line) == <<line.ts, Norm(line.detail)>>

\* three records at t1 < t2 < t3, the last two with the same normalized
\* display text, the first with another
ScenarioA ==
    /\ Len(g.rows) = 3
    /\ TsLess(g.rows[1].announcement_date, g.rows[2].announcement_date)
    /\ TsLess(g.rows[2].announcement_date, g.rows[3].announcement_date)
    /\ Norm(Detail(g.rows[2])) = Norm(Detail(g.rows[3]))
    /\ Norm(Detail(g.rows[1])) # Norm(Detail(g.rows[2]))

\* C2 as stated: in scenario A build_timeline emits exactly 2 update lines.
C2_ScenarioATwoLines == Built /\ ScenarioA => Len(timeline.lines) = 2

\* C2 as amended: in scenario A build_timeline emits 3 update lines when t2
\* and t3 lie in different whole seconds, and exactly 2, the t1 line and the
\* t2 line, only when t2 and t3 format to the same second.
C2_ScenarioALinesBySecond ==
    Built /\ ScenarioA =>
      IF g.rows[2].announcement_date.sec = g.rows[3].announcement_date.sec
      THEN timeline.lines = <<Line(g.rows[1]), Line(g.rows[2])>>
      ELSE timeline.lines = <<Line(g.rows[1]), Line(g.rows[2]), Line(g.rows[3])>>

C2_Witness ==
    /\ Built
    /\ ScenarioA
    /\ g.rows[2].announcement_date.sec # g.rows[3].announcement_date.sec
    /\ Len(timeline.lines) = 3

C10_NonEmptyTimeline ==
    Built /\ g.rows # <<>> =>
      /\ timeline.literal = ""
      /\ Len(timeline.header) = 3
      /\ Len(timeline.lines) >= 1
      /\ timeline.lines[1] = Line(g.rows[1])
      /\ Len(timeline.lines)
            <= Cardinality({g.rows[i].announcement_date : i \in DOMAIN g.rows})

C10_Witness ==
    /\ Built
    /\ Len(g.rows) = 3
    /\ g.rows[2].announcement_date = g.rows[3].announcement_date
    /\ Detail(g.rows[2]) # Detail(g.rows[3])
    /\ Len(timeline.lines) = 2

\* C7: given an empty partition, aggregate_group returns a sentinel summary
\* flagged as empty and does not raise.
C7_EmptyPartitionSentinel ==
    pc = "aggregate_group" /\ g.rows = <<>> =>
      /\ summary.raised = ""
      /\ summary.sentinel
      /\ summary.row.llm_timeline = Literal(EmptyGroupNoData)

=============================================================================
